---- MODULE Spec2Model ----
(***************************************************************************)
(* Model of app/webhook_handler.py: the startup sequence (__main__), the   *)
(* POST /webhook handler (webhook_handler), the payload normalizer         *)
(* (process_webhook_data), the mailer (send_email_alert) and the process-  *)
(* wide counter webhook_count.                                             *)
(*                                                                         *)
(* A request's handler is modelled statement by statement, so that the     *)
(* same actions serve a server that handles one request at a time (Spec)   *)
(* and a threaded server that interleaves handlers (SpecConc).             *)
(***************************************************************************)
EXTENDS Integers, Sequences, FiniteSets, TLC

\* ------------------------------------------------------------------ bounds
\* Number of requests received when they are handled one after another.
MaxRequests == 4
\* Number of handlers that may run at the same time on the threaded server.
MaxConcurrent == 2

\* --------------------------------------------------------------- constants
MAX_WEBHOOKS == 3

Requests == 1 .. MaxRequests

VARIABLES
    mainPc,         \* position of __main__
    exitStatus,     \* status given to sys.exit, -1 while the process runs
    calls,          \* startup steps called so far, in order
    loginResult,    \* what test_email_login returned ("none" before the call)
    provisionResult,\* how create_webhook ended ("none" before the call)
    webhook_url,    \* module global webhook_url
    webhook_count,  \* module global webhook_count
    arrived,        \* number of requests received so far
    pc,             \* per request: position of its handler
    body,           \* per request: the HTTP body
    data,           \* per request: local `data`
    processed_data, \* per request: local `processed_data`
    loaded,         \* per request: the value read by `webhook_count += 1`
    alert_subject,  \* per request: local `alert_subject`
    send_result,    \* per request: (success, message) of the per-event send
    exc,            \* per request: the exception caught at the handler boundary
    normalized,     \* requests whose process_webhook_data call returned
    outbox,         \* every send_email_alert call so far, in order
    responses       \* per request: the HTTP responses returned

startupVars == <<mainPc, exitStatus, calls, loginResult, provisionResult, webhook_url>>
localVars == <<body, data, processed_data, alert_subject, send_result, exc>>
vars == <<mainPc, exitStatus, calls, loginResult, provisionResult, webhook_url,
          webhook_count, arrived, pc, body, data, processed_data, loaded,
          alert_subject, send_result, exc, normalized, outbox, responses>>

\* ------------------------------------------------------------- JSON values
\* A JSON value is [type, fields]; fields is the key/value mapping of an
\* object and the empty mapping for every other type.
Keys == {"event_type", "timestamp", "details"}

NoFields == [k \in {} |-> "None"]

KeyValues(k) ==
    CASE k = "event_type" -> {"ping"}
      [] k = "timestamp"  -> {"2024-01-01T00:00:00Z"}
      [] k = "details"    -> {"{'id': 7}"}

JsonObjects ==
    UNION { { [type |-> "object", fields |-> f] :
                f \in { g \in [S -> {"ping", "2024-01-01T00:00:00Z", "{'id': 7}"}] :
                          \A k \in S : g[k] \in KeyValues(k) } } :
            S \in SUBSET Keys }

NonObjectTypes == {"list", "str", "int", "NoneType"}

JsonNonObjects == { [type |-> t, fields |-> NoFields] : t \in NonObjectTypes }

JsonValues == JsonObjects \cup JsonNonObjects

\* An HTTP body: text that parses to a JSON value, or text that does not.
NoValue == [type |-> "none", fields |-> NoFields]

Bodies == { [json |-> TRUE, value |-> v] : v \in JsonValues }
          \cup { [json |-> FALSE, value |-> NoValue] }

\* Bodies used when handlers interleave.
ConcBodies == { [json |-> TRUE,
                 value |-> [type |-> "object",
                            fields |-> [k \in {"event_type"} |-> "ping"]]],
                [json |-> FALSE, value |-> NoValue] }

NoBody == [json |-> FALSE, value |-> NoValue]

\* ---------------------------------------------------------- pure functions
NoException == [type |-> "none", message |-> ""]

\* request.json: the parsed body, or BadRequest for a body that is not JSON.
request_json(b) ==
    IF b.json
    THEN [raised |-> FALSE, value |-> b.value, exception |-> NoException]
    ELSE [raised |-> TRUE, value |-> NoValue,
          exception |-> [type |-> "BadRequest",
                         message |-> "400 Bad Request: Failed to decode JSON object"]]

\* dict.get(key, default)
DictGetNoDefault(d, key, default) ==
    IF key \in DOMAIN d THEN d[key] ELSE "None"

DictGet(d, key, default) ==
    IF key \in DOMAIN d THEN d[key] ELSE default

NoRecord == [event_type |-> "", timestamp |-> "", details |-> ""]

\* process_webhook_data(data): `data.get` exists on a dict only; on any other
\* value the attribute lookup raises AttributeError. The message names the
\* value's type in Python; here it is the same text for every type.
process_webhook_data(d) ==
    IF d.type = "object"
    THEN [raised |-> FALSE,
          value |-> [event_type |-> DictGet(d.fields, "event_type", "Unknown"),
                     timestamp  |-> DictGet(d.fields, "timestamp", "None"),
                     details    |-> DictGet(d.fields, "details", "{}")],
          exception |-> NoException]
    ELSE [raised |-> TRUE, value |-> NoRecord,
          exception |-> [type |-> "AttributeError",
                         message |-> "object has no attribute 'get'"]]

\* send_email_alert(subject, body): the SMTP session ends in one of three
\* ways; both failures are caught and returned as (False, message).
SendOutcomes == {"ok", "SMTPException", "Exception"}

send_email_alert(outcome) ==
    CASE outcome = "ok" ->
           [success |-> TRUE, message |-> "Email sent successfully"]
      [] outcome = "SMTPException" ->
           [success |-> FALSE, message |-> "An error occurred while sending the email"]
      [] outcome = "Exception" ->
           [success |-> FALSE, message |-> "An unexpected error occurred"]

NoResult == [success |-> FALSE, message |-> ""]

\* create_webhook(): how the call to the provisioning API can end.
ProvisionOutcomes == {"ok", "transport_error", "http_error", "invalid_json", "no_url"}

create_webhook(outcome) ==
    CASE outcome = "ok" ->
           [raised |-> FALSE, url |-> "https://webhook.site/token-id", logged |-> FALSE]
      [] outcome \in {"transport_error", "http_error", "invalid_json"} ->
           [raised |-> TRUE, url |-> "None", logged |-> TRUE]
      [] outcome = "no_url" ->
           [raised |-> TRUE, url |-> "None", logged |-> FALSE]

\* f"Webhook Alert {webhook_count}/{MAX_WEBHOOKS}: {processed_data['event_type']}"
AlertSubject(count, event_type) ==
    [kind |-> "Webhook Alert", n |-> count, max |-> MAX_WEBHOOKS, event_type |-> event_type]

FinalSubject ==
    [kind |-> "Webhook Processing Complete", n |-> 0, max |-> MAX_WEBHOOKS, event_type |-> ""]

NoSubject == [kind |-> "", n |-> 0, max |-> 0, event_type |-> ""]

Response(code, status, message) ==
    [code |-> code, status |-> status, message |-> message]

SuccessResponse == Response(200, "success", "Webhook processed and alert sent")

\* ------------------------------------------------------------------- Init
Init ==
    /\ mainPc = "start"
    /\ exitStatus = -1
    /\ calls = << >>
    /\ loginResult = "none"
    /\ provisionResult = "none"
    /\ webhook_url = "None"
    /\ webhook_count = 0
    /\ arrived = 0
    /\ pc = [r \in Requests |-> "idle"]
    /\ body = [r \in Requests |-> NoBody]
    /\ data = [r \in Requests |-> NoValue]
    /\ processed_data = [r \in Requests |-> NoRecord]
    /\ loaded = [r \in Requests |-> -1]
    /\ alert_subject = [r \in Requests |-> NoSubject]
    /\ send_result = [r \in Requests |-> NoResult]
    /\ exc = [r \in Requests |-> NoException]
    /\ normalized = {}
    /\ outbox = << >>
    /\ responses = [r \in Requests |-> << >>]

requestVars == <<webhook_count, arrived, pc, body, data, processed_data, loaded,
                 alert_subject, send_result, exc, normalized, outbox, responses>>

\* ---------------------------------------------------------------- startup
\* sys.exit(1)
Exit1 ==
    /\ mainPc' = "exited"
    /\ exitStatus' = 1

\* `if not test_email_login(): ... sys.exit(1)` without the exit.
LoginFailedContinues ==
    /\ mainPc' = "provision"
    /\ exitStatus' = exitStatus

LoginFailed == Exit1

\* if not test_email_login(): sys.exit(1)
TestLogin ==
    /\ mainPc = "start"
    /\ \E ok \in BOOLEAN :
         /\ loginResult' = (IF ok THEN "true" ELSE "false")
         /\ IF ok
            THEN mainPc' = "provision" /\ exitStatus' = exitStatus
            ELSE LoginFailed
    /\ calls' = Append(calls, "test_email_login")
    /\ UNCHANGED <<provisionResult, webhook_url>>
    /\ UNCHANGED requestVars

\* webhook_url = create_webhook(); an exception reaches the top-level handler.
CreateWebhook ==
    /\ mainPc = "provision"
    /\ \E o \in ProvisionOutcomes :
         LET res == create_webhook(o) IN
         /\ provisionResult' = o
         /\ IF res.raised
            THEN Exit1 /\ webhook_url' = webhook_url
            ELSE /\ mainPc' = "run"
                 /\ exitStatus' = exitStatus
                 /\ webhook_url' = res.url
    /\ calls' = Append(calls, "create_webhook")
    /\ UNCHANGED loginResult
    /\ UNCHANGED requestVars

\* app.run(debug=True, port=5000): the listener serves, or fails to start.
AppRun ==
    /\ mainPc = "run"
    /\ \E started \in BOOLEAN :
         IF started
         THEN mainPc' = "listening" /\ exitStatus' = exitStatus
         ELSE Exit1
    /\ calls' = Append(calls, "app.run")
    /\ UNCHANGED <<loginResult, provisionResult, webhook_url>>
    /\ UNCHANGED requestVars

\* ---------------------------------------------------------------- handler
InFlight == { r \in Requests : pc[r] \notin {"idle", "done"} }

\* The handler returns: its response is sent and its locals go out of scope.
Return(r, resp) ==
    /\ responses' = [responses EXCEPT ![r] = Append(@, resp)]
    /\ pc' = [pc EXCEPT ![r] = "done"]
    /\ body' = [body EXCEPT ![r] = NoBody]
    /\ data' = [data EXCEPT ![r] = NoValue]
    /\ processed_data' = [processed_data EXCEPT ![r] = NoRecord]
    /\ alert_subject' = [alert_subject EXCEPT ![r] = NoSubject]
    /\ send_result' = [send_result EXCEPT ![r] = NoResult]
    /\ exc' = [exc EXCEPT ![r] = NoException]

\* A request arrives while fewer than `limit` handlers are running.
Receive(r, limit, total, inputs) ==
    /\ mainPc = "listening"
    /\ r = arrived + 1
    /\ r <= total
    /\ Cardinality(InFlight) < limit
    /\ \E b \in inputs : body' = [body EXCEPT ![r] = b]
    /\ pc' = [pc EXCEPT ![r] = "parse"]
    /\ arrived' = r
    /\ UNCHANGED <<webhook_count, data, processed_data, loaded, alert_subject,
                   send_result, exc, normalized, outbox, responses>>
    /\ UNCHANGED startupVars

\* One handler at a time.
Begin(r) == Receive(r, 1, MaxRequests, Bodies)

\* A threaded server: handlers overlap. It receives as many requests as the
\* quota, the fewest that can bring the counter to the completion alert.
BeginConc(r) == Receive(r, MaxConcurrent, MAX_WEBHOOKS, ConcBodies)

\* data = request.json
Parse(r) ==
    /\ pc[r] = "parse"
    /\ LET res == request_json(body[r]) IN
       IF res.raised
       THEN /\ exc' = [exc EXCEPT ![r] = res.exception]
            /\ pc' = [pc EXCEPT ![r] = "except"]
            /\ data' = data
       ELSE /\ data' = [data EXCEPT ![r] = res.value]
            /\ pc' = [pc EXCEPT ![r] = "normalize"]
            /\ exc' = exc
    /\ UNCHANGED <<webhook_count, arrived, body, processed_data, loaded,
                   alert_subject, send_result, normalized, outbox, responses>>
    /\ UNCHANGED startupVars

\* processed_data = process_webhook_data(data)
Normalize(r) ==
    /\ pc[r] = "normalize"
    /\ LET res == process_webhook_data(data[r]) IN
       IF res.raised
       THEN /\ exc' = [exc EXCEPT ![r] = res.exception]
            /\ pc' = [pc EXCEPT ![r] = "except"]
            /\ UNCHANGED <<processed_data, normalized>>
       ELSE /\ processed_data' = [processed_data EXCEPT ![r] = res.value]
            /\ normalized' = normalized \cup {r}
            /\ pc' = [pc EXCEPT ![r] = "load"]
            /\ exc' = exc
    /\ UNCHANGED <<webhook_count, arrived, body, data, loaded, alert_subject,
                   send_result, outbox, responses>>
    /\ UNCHANGED startupVars

\* webhook_count += 1, first half: read the global.
Load(r) ==
    /\ pc[r] = "load"
    /\ loaded' = [loaded EXCEPT ![r] = webhook_count]
    /\ pc' = [pc EXCEPT ![r] = "store"]
    /\ UNCHANGED <<webhook_count, arrived, body, data, processed_data, alert_subject,
                   send_result, exc, normalized, outbox, responses>>
    /\ UNCHANGED startupVars

\* The value `webhook_count += 1` writes back.
IncrementedByTwo(r) == loaded[r] + 2

IncrementedUntilQuota(r) ==
    IF loaded[r] >= MAX_WEBHOOKS THEN loaded[r] ELSE loaded[r] + 1

IncrementedFromGlobal(r) == webhook_count + 1

Incremented(r) == loaded[r] + 1

\* webhook_count += 1, second half: write the global.
Store(r) ==
    /\ pc[r] = "store"
    /\ webhook_count' = Incremented(r)
    /\ pc' = [pc EXCEPT ![r] = "format"]
    /\ UNCHANGED <<arrived, body, data, processed_data, loaded, alert_subject,
                   send_result, exc, normalized, outbox, responses>>
    /\ UNCHANGED startupVars

\* alert_subject = f"Webhook Alert {webhook_count}/{MAX_WEBHOOKS}: ..."
Format(r) ==
    /\ pc[r] = "format"
    /\ alert_subject' = [alert_subject EXCEPT
                           ![r] = AlertSubject(webhook_count, processed_data[r].event_type)]
    /\ pc' = [pc EXCEPT ![r] = "send"]
    /\ UNCHANGED <<webhook_count, arrived, body, data, processed_data, loaded,
                   send_result, exc, normalized, outbox, responses>>
    /\ UNCHANGED startupVars

\* success, message = send_email_alert(alert_subject, alert_body)
Send(r) ==
    /\ pc[r] = "send"
    /\ \E o \in SendOutcomes :
         /\ send_result' = [send_result EXCEPT ![r] = send_email_alert(o)]
         /\ outbox' = Append(outbox, [req |-> r, subject |-> alert_subject[r],
                                      result |-> send_email_alert(o)])
    /\ pc' = [pc EXCEPT ![r] = "sent"]
    /\ UNCHANGED <<webhook_count, arrived, body, data, processed_data, loaded,
                   alert_subject, exc, normalized, responses>>
    /\ UNCHANGED startupVars

\* `if not success: return ...` with the increment undone first.
SendFailedRollsBack(r) ==
    /\ Return(r, Response(500, "error", send_result[r].message))
    /\ webhook_count' = webhook_count - 1

\* return jsonify({"status": "error", "message": message}), 500
SendFailed(r) ==
    /\ Return(r, Response(500, "error", send_result[r].message))
    /\ webhook_count' = webhook_count

\* if not success: return ..., 500
CheckSend(r) ==
    /\ pc[r] = "sent"
    /\ ~send_result[r].success
    /\ SendFailed(r)
    /\ UNCHANGED <<arrived, loaded, normalized, outbox>>
    /\ UNCHANGED startupVars

\* The quota test with a strict comparison.
QuotaReachedStrict == webhook_count > MAX_WEBHOOKS

\* if webhook_count >= MAX_WEBHOOKS
QuotaReached == webhook_count >= MAX_WEBHOOKS

\* The quota test after a successful send; below the quota the handler
\* returns 200 at once.
CheckQuota(r) ==
    /\ pc[r] = "sent"
    /\ send_result[r].success
    /\ IF QuotaReached
       THEN /\ pc' = [pc EXCEPT ![r] = "final"]
            /\ UNCHANGED <<localVars, responses>>
       ELSE Return(r, SuccessResponse)
    /\ UNCHANGED <<webhook_count, arrived, loaded, normalized, outbox>>
    /\ UNCHANGED startupVars

\* The handler's response after the completion send, were its result tested.
AfterFinalSendChecked(result) ==
    IF result.success THEN SuccessResponse ELSE Response(500, "error", result.message)

\* send_email_alert(final_subject, final_body): the result is dropped, and
\* the handler goes on to return 200.
AfterFinalSend(result) == SuccessResponse

\* The completion alert and the handler's final return.
Final(r) ==
    /\ pc[r] = "final"
    /\ \E o \in SendOutcomes :
         /\ outbox' = Append(outbox, [req |-> r, subject |-> FinalSubject,
                                      result |-> send_email_alert(o)])
         /\ Return(r, AfterFinalSend(send_email_alert(o)))
    /\ UNCHANGED <<webhook_count, arrived, loaded, normalized>>
    /\ UNCHANGED startupVars

\* An exception that passes the handler boundary: no response is produced.
ExceptionEscapes(r) ==
    /\ pc' = [pc EXCEPT ![r] = "crashed"]
    /\ UNCHANGED <<responses, localVars>>

\* except Exception as e: return jsonify({"status": "error", "message": str(e)}), 500
HandleException(r) == Return(r, Response(500, "error", exc[r].message))

Except(r) ==
    /\ pc[r] = "except"
    /\ HandleException(r)
    /\ UNCHANGED <<webhook_count, arrived, loaded, normalized, outbox>>
    /\ UNCHANGED startupVars

\* ------------------------------------------------------------ specifications
Next ==
    \/ TestLogin
    \/ CreateWebhook
    \/ AppRun
    \/ \E r \in Requests : Begin(r)
    \/ \E r \in Requests : Parse(r)
    \/ \E r \in Requests : Normalize(r)
    \/ \E r \in Requests : Load(r)
    \/ \E r \in Requests : Store(r)
    \/ \E r \in Requests : Format(r)
    \/ \E r \in Requests : Send(r)
    \/ \E r \in Requests : CheckSend(r)
    \/ \E r \in Requests : CheckQuota(r)
    \/ \E r \in Requests : Final(r)
    \/ \E r \in Requests : Except(r)

Spec == Init /\ [][Next]_vars

NextConc ==
    \/ TestLogin
    \/ CreateWebhook
    \/ AppRun
    \/ \E r \in Requests : BeginConc(r)
    \/ \E r \in Requests : Parse(r)
    \/ \E r \in Requests : Normalize(r)
    \/ \E r \in Requests : Load(r)
    \/ \E r \in Requests : Store(r)
    \/ \E r \in Requests : Format(r)
    \/ \E r \in Requests : Send(r)
    \/ \E r \in Requests : CheckSend(r)
    \/ \E r \in Requests : CheckQuota(r)
    \/ \E r \in Requests : Final(r)
    \/ \E r \in Requests : Except(r)

SpecConc == Init /\ [][NextConc]_vars

\* ------------------------------------------------------ reading the history
EntriesOf(r) == { i \in 1 .. Len(outbox) : outbox[i].req = r }

IsAlert(e) == e.subject.kind = "Webhook Alert"

IsFinal(e) == e.subject = FinalSubject

AlertsOf(r) == { i \in EntriesOf(r) : IsAlert(outbox[i]) }

FinalsOf(r) == { i \in EntriesOf(r) : IsFinal(outbox[i]) }

Done(r) == pc[r] = "done"

\* The counter's increments performed so far.
Stored == { r \in normalized : pc[r] \notin {"load", "store"} }

\* The record the normalizer is specified to return for a JSON value.
ExpectedRecord(d) ==
    [event_type |-> IF "event_type" \in DOMAIN d.fields
                    THEN d.fields["event_type"] ELSE "Unknown",
     timestamp  |-> IF "timestamp" \in DOMAIN d.fields
                    THEN d.fields["timestamp"] ELSE "None",
     details    |-> IF "details" \in DOMAIN d.fields
                    THEN d.fields["details"] ELSE "{}"]

\* The handler of r has called (or is past calling) process_webhook_data on
\* a body that was valid JSON, and has not returned yet.
NormalizeCalled(r) ==
    /\ pc[r] \notin {"idle", "parse", "normalize", "done"}
    /\ body[r].json

\* ------------------------------------------------------------------- C1
\* C1 (as claimed): with requests handled one after another, the "Webhook
\* Processing Complete" alert is sent at most once in the life of the
\* process, only by the request whose per-event alert carries the quota
\* itself (3); a request past the quota sends its per-event alert alone.
C1_CompleteSentOnce ==
    /\ Cardinality({ i \in 1 .. Len(outbox) : IsFinal(outbox[i]) }) <= 1
    /\ \A r \in Requests :
         FinalsOf(r) # {} =>
           \E i \in AlertsOf(r) : outbox[i].subject.n = MAX_WEBHOOKS
    /\ \A r \in Requests :
         (Done(r) /\ \E i \in AlertsOf(r) : outbox[i].subject.n > MAX_WEBHOOKS)
           => Cardinality(EntriesOf(r)) = 1

\* ------------------------------------------------------------------- C2
\* C2 (as claimed): for every valid JSON body, object or not,
\* process_webhook_data returns an event record and never raises, with
\* "Unknown", null and the empty mapping for the missing keys and every
\* present key copied.
C2_NormalizeTotalOnAllJson ==
    \A r \in Requests :
      NormalizeCalled(r) =>
        /\ pc[r] # "except"
        /\ processed_data[r] = ExpectedRecord(data[r])

\* C2 (amended): for every body that is a JSON object,
\* process_webhook_data returns the event record with the stated defaults
\* and copies; for a JSON value that is not an object it raises
\* AttributeError, which the handler catches: no record, no increment, no
\* email.
C2_NormalizeTotalOnObjects ==
    \A r \in Requests :
      NormalizeCalled(r) =>
        IF data[r].type = "object"
        THEN /\ pc[r] # "except"
             /\ r \in normalized
             /\ processed_data[r] = ExpectedRecord(data[r])
        ELSE /\ pc[r] = "except"
             /\ exc[r].type = "AttributeError"
             /\ r \notin normalized
             /\ processed_data[r] = NoRecord
             /\ EntriesOf(r) = {}

\* An object with only a timestamp has been normalized: event_type and
\* details took their defaults.
C2_Witness ==
    \E r \in Requests :
      /\ pc[r] = "load"
      /\ data[r].type = "object"
      /\ DOMAIN data[r].fields = {"timestamp"}
      /\ processed_data[r] = [event_type |-> "Unknown",
                              timestamp |-> "2024-01-01T00:00:00Z",
                              details |-> "{}"]

\* ------------------------------------------------------------------- C3
\* C3: a request whose per-event send failed is answered 500 with the
\* failure message of that send, made exactly one send attempt (no retry,
\* no completion alert), and the counter keeps the increment the request
\* made: it is never below the number the failed alert carried.
C3_SendFailure ==
    \A r \in Requests :
      \A i \in AlertsOf(r) :
        ~outbox[i].result.success =>
          /\ EntriesOf(r) = {i}
          /\ pc[r] \in {"sent", "done"}
          /\ webhook_count >= outbox[i].subject.n
          /\ outbox[i].subject.n >= 1
          /\ Done(r) =>
               responses[r] = << Response(500, "error", outbox[i].result.message) >>

\* The third normalized request's per-event send failed: it was answered
\* 500 and the counter stands at 3.
C3_Witness ==
    \E r \in Requests :
      /\ Done(r)
      /\ webhook_count = MAX_WEBHOOKS
      /\ \E i \in AlertsOf(r) :
           /\ ~outbox[i].result.success
           /\ outbox[i].subject.n = MAX_WEBHOOKS
      /\ responses[r][1].code = 500

\* ------------------------------------------------------------------- C4
\* C4: with requests handled one after another, the counter equals the
\* number of requests normalized without error whose increment has run; a
\* request that failed at parsing or normalization sent no email.
C4_CounterCountsNormalized ==
    /\ webhook_count = Cardinality(Stored)
    /\ \A r \in Requests :
         (pc[r] \in {"except", "done"} /\ r \notin normalized) => EntriesOf(r) = {}
    /\ \A r \in Requests : r \in normalized => r <= arrived

\* One request failed before normalization, one failed at its send, and the
\* counter is 2.
C4_Witness ==
    /\ webhook_count = 2
    /\ \E r \in Requests : Done(r) /\ r \notin normalized
    /\ \E r \in Requests :
         Done(r) /\ \E i \in AlertsOf(r) : ~outbox[i].result.success

\* ------------------------------------------------------------------- C5
\* C5: every request that has ended has exactly one response, 200/"success"
\* or 500/"error"; no failure leaves a handler without a response, and once
\* the last request has been answered the server takes the next one.
C5_OneResponse ==
    \A r \in Requests :
      /\ pc[r] # "crashed"
      /\ ~Done(r) => responses[r] = << >>
      /\ Done(r) =>
           /\ Len(responses[r]) = 1
           /\ \/ responses[r][1].code = 200 /\ responses[r][1].status = "success"
              \/ responses[r][1].code = 500 /\ responses[r][1].status = "error"
      /\ (Done(r) /\ r = arrived /\ r < MaxRequests) => ENABLED Begin(r + 1)
      /\ r <= arrived => (mainPc = "listening" /\ exitStatus = -1)

\* A request answered 500 for a malformed body is followed by a request
\* answered 200.
C5_Witness ==
    \E r \in Requests :
      /\ r + 1 \in Requests
      /\ Done(r) /\ responses[r][1].code = 500 /\ r \notin normalized
      /\ Done(r + 1) /\ responses[r + 1][1].code = 200

\* ------------------------------------------------------------------- C6
StartupOrder == << "test_email_login", "create_webhook", "app.run" >>

\* C6: the startup steps are called in the order login test, provisioning,
\* listener, each at most once; a failed login test exits with status 1
\* before create_webhook is called; a create_webhook that raises exits with
\* status 1 before the listener is started; the listener runs only after
\* both succeeded.
C6_StartupOrder ==
    /\ Len(calls) <= Len(StartupOrder)
    /\ calls = SubSeq(StartupOrder, 1, Len(calls))
    /\ loginResult = "false" =>
         /\ mainPc = "exited" /\ exitStatus = 1
         /\ calls = << "test_email_login" >>
    /\ provisionResult \notin {"none", "ok"} =>
         /\ mainPc = "exited" /\ exitStatus = 1
         /\ calls = << "test_email_login", "create_webhook" >>
         /\ webhook_url = "None"
    /\ Len(calls) >= 2 => loginResult = "true"
    /\ Len(calls) >= 3 => provisionResult = "ok"
    /\ mainPc = "listening" =>
         /\ loginResult = "true" /\ provisionResult = "ok"
         /\ calls = StartupOrder
    /\ mainPc # "listening" => arrived = 0
    /\ mainPc = "exited" <=> exitStatus = 1

\* The provisioning response had no url field: the process exited with 1
\* and app.run was never called.
C6_Witness ==
    /\ provisionResult = "no_url"
    /\ mainPc = "exited"
    /\ exitStatus = 1
    /\ Len(calls) = 2

\* ------------------------------------------------------------------- C7
\* C7: a request is answered 200 exactly when its per-event send succeeded,
\* whatever the completion send did: every request that attempted the
\* completion alert is answered with the success acknowledgement.
C7_CompletionOutcomeIgnored ==
    \A r \in Requests :
      Done(r) =>
        /\ (responses[r][1].code = 200)
             <=> (\E i \in AlertsOf(r) : outbox[i].result.success)
        /\ (\E i \in AlertsOf(r) : outbox[i].result.success)
             => responses[r] = << SuccessResponse >>
        /\ FinalsOf(r) # {} => responses[r] = << SuccessResponse >>

\* A request whose completion send failed was answered 200.
C7_Witness ==
    \E r \in Requests :
      /\ Done(r)
      /\ \E i \in FinalsOf(r) : ~outbox[i].result.success
      /\ responses[r] = << SuccessResponse >>

\* ------------------------------------------------------------------- C8
AlertLog == SelectSeq(outbox, IsAlert)

\* C8: with requests handled one after another, the k-th per-event alert
\* attempted carries "Webhook Alert k/3: <event_type>" with k the counter
\* right after the request's own increment, so the numbers run 1, 2, 3, ...;
\* the request whose alert is number 3 sends the completion alert right
\* after its successful per-event alert, and no request with a smaller
\* number sends it.
C8_AlertNumbering ==
    /\ \A k \in 1 .. Len(AlertLog) :
         /\ AlertLog[k].subject.n = k
         /\ AlertLog[k].subject.max = 3
         /\ AlertLog[k].subject.event_type \in {"ping", "Unknown"}
    /\ \A r \in Requests :
         pc[r] = "send" =>
           /\ alert_subject[r] =
                [kind |-> "Webhook Alert", n |-> loaded[r] + 1, max |-> 3,
                 event_type |-> ExpectedRecord(data[r]).event_type]
           /\ loaded[r] + 1 = Cardinality(normalized)
           /\ webhook_count = loaded[r] + 1
    /\ \A i \in 1 .. Len(outbox) :
         IsFinal(outbox[i]) =>
           /\ i > 1
           /\ IsAlert(outbox[i - 1])
           /\ outbox[i - 1].req = outbox[i].req
           /\ outbox[i - 1].result.success
           /\ outbox[i - 1].subject.n >= 3
    /\ \A r \in Requests :
         \A i \in AlertsOf(r) :
           (Done(r) /\ outbox[i].subject.n = 3 /\ outbox[i].result.success)
             => (i + 1) \in FinalsOf(r)

\* The first alert is "Webhook Alert 1/3: ping" and the third alert is
\* followed by the completion alert of the same request.
C8_Witness ==
    /\ Len(outbox) >= 4
    /\ outbox[1].subject =
         [kind |-> "Webhook Alert", n |-> 1, max |-> 3, event_type |-> "ping"]
    /\ outbox[3].subject.n = 3
    /\ IsFinal(outbox[4])
    /\ outbox[4].req = outbox[3].req

\* ------------------------------------------------------------------- C9
\* C9: when handlers interleave, the counter never exceeds the number of
\* increments performed, and whenever two requests incremented from the
\* same value read, an increment is lost: the counter is below the number
\* of increments performed.
C9_LostUpdate ==
    /\ webhook_count <= Cardinality(Stored)
    /\ (\E r1, r2 \in Stored : r1 # r2 /\ loaded[r1] = loaded[r2])
         => webhook_count < Cardinality(Stored)

\* Three concurrent requests were all normalized and answered 200, two of
\* them sent a per-event alert with the same number, the counter is below
\* 3 and nobody sent the completion alert.
C9_Witness ==
    /\ Cardinality(normalized) = 3
    /\ \A r \in normalized : Done(r) /\ responses[r] = << SuccessResponse >>
    /\ webhook_count < Cardinality(normalized)
    /\ \E r1, r2 \in normalized :
         /\ r1 # r2
         /\ loaded[r1] = loaded[r2]
         /\ \E i \in AlertsOf(r1), j \in AlertsOf(r2) :
              outbox[i].subject.n = outbox[j].subject.n
    /\ \A i \in 1 .. Len(outbox) : ~IsFinal(outbox[i])

====
